---- MODULE Spec2Model ----
(***************************************************************************)
(* The video2x frame pipeline: VideoDecoder.run (decoder.py), Upscaler.run *)
(* (upscaler.py) and VideoEncoder.run (encoder.py), communicating through  *)
(* the bounded processing_queue, the shared processed_frames list, the     *)
(* processed counter and the pause flag.                                   *)
(*                                                                         *)
(* Every access to a shared object (queue put/get, one __getitem__ or      *)
(* __setitem__ on the ListProxy, one write to the encoder's stdin, one     *)
(* update of the counter) is one step; the local computation that follows  *)
(* it belongs to the same step.  A poll that finds nothing (queue empty,   *)
(* queue full, slot empty, pause set) sleeps and re-evaluates the same     *)
(* condition, so it is modelled by the step not being enabled.             *)
(***************************************************************************)
EXTENDS Integers, Sequences, FiniteSets, TLC

\* ---------------------------------------------------------------- bounds
\* total_frames handed to VideoEncoder; processed_frames has this many slots
TotalFrames == 3
\* number of Upscaler processes in the pool
NumWorkers == 3
\* maxsize of processing_queue
QueueSize == 2
\* largest GPU count num_nvidia_gpus() reports
MaxGpus == 1
\* largest output_width / output_height drawn for the scaling computation
MaxOutput == 12

\* Python's None (a record, so that it can be compared with images and jobs)
None == [none |-> TRUE]

\* an exception object
Error(name) == [exception |-> name]

Workers == 0..(NumWorkers - 1)
Slots == 0..(TotalFrames - 1)

Max(a, b) == IF a >= b THEN a ELSE b
Abs(a) == IF a >= 0 THEN a ELSE 0 - a

\* ------------------------------------------------------- upscaler tables
ALGORITHM_FIXED_SCALING_RATIOS ==
    [ waifu2x   |-> <<1, 2>>,
      srmd      |-> <<2, 3, 4>>,
      realsr    |-> <<4>>,
      realcugan |-> <<1, 2, 3, 4>>,
      edsr      |-> <<2, 3, 4>>,
      espcn     |-> <<2, 3, 4>>,
      fsrcnn    |-> <<2, 3, 4>>,
      lapsrn    |-> <<2, 4, 8>> ]

\* the keys of ALGORITHM_CLASSES
ALGORITHM_CLASSES == {"waifu2x", "srmd", "realsr", "realcugan", "superres"}

\* The table of the scenario "algorithm with ratios=[2]"; no algorithm of
\* ALGORITHM_FIXED_SCALING_RATIOS has it.
ScenarioRatios == <<2>>

\* sorted(list): insertion of each element into an ascending sequence
RECURSIVE Insert(_, _)
Insert(x, s) ==
    IF s = <<>> THEN <<x>>
    ELSE IF x <= Head(s) THEN <<x>> \o s
    ELSE <<Head(s)>> \o Insert(x, Tail(s))

RECURSIVE sorted(_)
sorted(s) == IF s = <<>> THEN <<>> ELSE Insert(Head(s), sorted(Tail(s)))

\* An algorithm identifier is kept as the list its split("-") gives:
\* <<"realsr">>, <<"superres", "lapsrn">>.
startswith_superres(algorithm) == algorithm[1] = "superres"

\* lines 152-161: the algorithm name after the split, and the ratio table
AlgorithmName(algorithm) == algorithm[1]

supported_scaling_ratios(algorithm) ==
    IF startswith_superres(algorithm)
    THEN sorted(ALGORITHM_FIXED_SCALING_RATIOS[algorithm[2]])
    ELSE sorted(ALGORITHM_FIXED_SCALING_RATIOS[algorithm[1]])

\* math.ceil(a / b) for positive integers
CeilDiv(a, b) == (a + b - 1) \div b

\* lines 148 and 163: math.ceil(max(output_width / width, output_height / height))
remaining_scaling_ratio(output_width, output_height, width, height) ==
    Max(CeilDiv(output_width, width), CeilDiv(output_height, height))

\* ------------------------------------------------ scale-ratio decomposition
\* remaining_scaling_ratio becomes a float after the first "/=": it is the
\* target divided by the product of the steps taken, kept here as the exact
\* fraction num / den (the quotients of these small integers are either
\* exact in floating point or far from every integer they are compared to).

\* lines 172-176: index of the first ratio >= remaining, 0 if the for loop
\* runs to its else
FirstSingleLast(ratios, num, den) ==
    LET S == {k \in 1..Len(ratios) : ratios[k] * den >= num}
    IN  IF S = {} THEN 0 ELSE CHOOSE k \in S : \A m \in S : m <= k

FirstSingle(ratios, num, den) ==
    LET S == {k \in 1..Len(ratios) : ratios[k] * den >= num}
    IN  IF S = {} THEN 0 ELSE CHOOSE k \in S : \A m \in S : k <= m

\* lines 179-188: indices <<i, j>> of the first pair with i * j >= remaining,
\* i in the outer loop and j in the inner one; <<0, 0>> if found stays False
FirstPairInnerMajor(ratios, num, den) ==
    LET P == {p \in (1..Len(ratios)) \X (1..Len(ratios)) :
                 ratios[p[1]] * ratios[p[2]] * den >= num}
    IN  IF P = {} THEN <<0, 0>>
        ELSE CHOOSE p \in P : \A q \in P :
                 p[2] < q[2] \/ (p[2] = q[2] /\ p[1] <= q[1])

FirstPair(ratios, num, den) ==
    LET P == {p \in (1..Len(ratios)) \X (1..Len(ratios)) :
                 ratios[p[1]] * ratios[p[2]] * den >= num}
    IN  IF P = {} THEN <<0, 0>>
        ELSE CHOOSE p \in P : \A q \in P :
                 p[1] < q[1] \/ (p[1] = q[1] /\ p[2] <= q[2])

\* One iteration of "while remaining_scaling_ratio > 1" (lines 172-194) on
\* st = [num, den, scaling_jobs, rule]; rule records which branch appended.
StepSingle(ratios, st, k) ==
    [ num |-> st.num, den |-> st.den * ratios[k],
      scaling_jobs |-> Append(st.scaling_jobs, ratios[k]),
      rule |-> Append(st.rule, "single") ]

StepPair(ratios, st, p) ==
    [ num |-> st.num, den |-> st.den * ratios[p[1]] * ratios[p[2]],
      scaling_jobs |-> st.scaling_jobs \o <<ratios[p[1]], ratios[p[2]]>>,
      rule |-> Append(st.rule, "pair") ]

StepSmallest(ratios, st) ==
    [ num |-> st.num, den |-> st.den * ratios[1],
      scaling_jobs |-> Append(st.scaling_jobs, ratios[1]),
      rule |-> Append(st.rule, "largest") ]

StepLargest(ratios, st) ==
    [ num |-> st.num, den |-> st.den * ratios[Len(ratios)],
      scaling_jobs |-> Append(st.scaling_jobs, ratios[Len(ratios)]),
      rule |-> Append(st.rule, "largest") ]

ScaleIterationNoPair(ratios, st) ==
    LET k == FirstSingle(ratios, st.num, st.den)
    IN  IF k # 0 THEN StepSingle(ratios, st, k) ELSE StepLargest(ratios, st)

ScaleIteration(ratios, st) ==
    LET k == FirstSingle(ratios, st.num, st.den)
        p == FirstPair(ratios, st.num, st.den)
    IN  IF k # 0 THEN StepSingle(ratios, st, k)
        ELSE IF p # <<0, 0>> THEN StepPair(ratios, st, p)
        ELSE StepLargest(ratios, st)

\* lines 163-169: the state before the loop, and the remaining == 1 branch
ScaleStartNoSmallest(ratios, target) ==
    [ num |-> target, den |-> 1, scaling_jobs |-> <<>>, rule |-> <<>> ]

ScaleStart(ratios, target) ==
    IF target = 1
    THEN [ num |-> 1, den |-> 1, scaling_jobs |-> <<ratios[1]>>,
           rule |-> <<"smallest">> ]
    ELSE [ num |-> target, den |-> 1, scaling_jobs |-> <<>>, rule |-> <<>> ]

\* line 171: the loop condition (after the remaining == 1 branch num = den,
\* which is that branch having no loop)
ScaleLoopRuns(st) == st.num > st.den

\* (CHOOSE r \in {F(x) : x \in {e}} : TRUE is F(e) with e evaluated once.)
RECURSIVE ScaleLoop(_, _)
ScaleLoop(ratios, st) ==
    IF ScaleLoopRuns(st)
    THEN CHOOSE r \in {ScaleLoop(ratios, next) :
                          next \in {ScaleIteration(ratios, st)}} : TRUE
    ELSE st

\* lines 163-194: scaling_jobs for a table and an integer target
scaling_jobs(ratios, target) ==
    CHOOSE r \in {ScaleLoop(ratios, start).scaling_jobs :
                     start \in {ScaleStart(ratios, target)}} : TRUE

RECURSIVE Product(_)
Product(s) == IF s = <<>> THEN 1 ELSE Head(s) * Product(Tail(s))

\* ------------------------------------------------------------------ images
\* A decoded frame is its size and its content; every pixel of a frame has
\* the same value px.  An upscaled image is its size and frame, the index of
\* the decoded frame it was computed from, which stands for its content.
Pixels == {0, 255}
InputSize == <<2, 2>>

\* Image.frombytes("RGB", (input_width, input_height), buffer)
frombytes(px) == [size |-> InputSize, px |-> px]

\* lines 119-130: difference_ratio < difference_threshold, where
\* difference_ratio = sum(mean) / (len(mean) * 255) * 100 and mean is
\* |image0 - image1| in each band; both sides are multiplied by 255
difference_below(image0, image1, difference_threshold) ==
    IF image0 # None
    THEN 100 * Abs(image0.px - image1.px) < difference_threshold * 255
    ELSE 0 < difference_threshold

\* processor_object.process(image): the image scaled by the object's ratio
process(processor_object, image) ==
    [image EXCEPT !.size = <<image.size[1] * processor_object.scale,
                             image.size[2] * processor_object.scale>>]

\* line 214: image1.resize((output_width, output_height), Image.LANCZOS)
resizeKeep(image, output_width, output_height) == image

resize(image, output_width, output_height) ==
    [image EXCEPT !.size = <<output_width, output_height>>]

\* processed_frames[i] with Python's list indexing: -1 is the last slot
ListIndex(i) == IF i < 0 THEN i + TotalFrames ELSE i

\* --------------------------------------------------------------- settings
DifferenceThresholds == {0, 100}
OutputSizes == {<<5, 3>>}
Algorithms == {<<"waifu2x">>}

\* processing_settings: (output_width, output_height, noise,
\* difference_threshold, algorithm), one tuple for the whole run
ProcessingSettings ==
    { [output_width |-> o[1], output_height |-> o[2], noise |-> 1,
       difference_threshold |-> t, algorithm |-> a] :
          o \in OutputSizes, t \in DifferenceThresholds, a \in Algorithms }

VARIABLES
    processing_settings,  \* the settings tuple of the run
    num_gpus,             \* Upscaler.num_gpus (num_nvidia_gpus())
    pause,                \* pause.value
    processing_queue,     \* the jobs in processing_queue, oldest first
    processed_frames,     \* the shared list: slot -> image or None
    processed,            \* processed.value
    decoder,              \* VideoDecoder: position and locals of run()
    encoder,              \* VideoEncoder: position and locals of run()
    written,              \* frame_index of every write to encoder.stdin
    upscaler,             \* Upscaler w: position and locals of run()
    processor_objects,    \* Upscaler w: its processor_objects dict
    constructed,          \* Upscaler w: keys of the constructor calls made
    used,                 \* Upscaler w: the objects its last frame went through
    stored,               \* slot -> what a worker last assigned to it
    scaling               \* one scaling computation, step by step

vars == << processing_settings, num_gpus, pause, processing_queue,
           processed_frames, processed, decoder, encoder, written, upscaler,
           processor_objects, constructed, used, stored, scaling >>

config_vars == << processing_settings, num_gpus >>
decoder_vars == << decoder >>
encoder_vars == << encoder, written, processed >>
upscaler_vars == << upscaler, processor_objects, constructed, used, stored >>

\* ------------------------------------------------------------ construction
NoJob == None

\* the value of scaling while the pipeline runs
ScalingIdle == [pc |-> "idle"]

\* VideoDecoder.__init__ (lines 67-107) and the locals of run() before it
\* runs: the FFmpeg process and the PipePrinter are started by __init__;
\* shutdown lists the steps of lines 179-200 run() has made
DecoderInit ==
    [ pc |-> "created", running |-> FALSE, frame_index |-> 0,
      previous_image |-> None, image |-> None, exception |-> None,
      process |-> "running", pipe_printer |-> "running", shutdown |-> <<>> ]

\* VideoEncoder.__init__ (lines 68-139) and the locals of run() before it runs
EncoderInit ==
    [ pc |-> "created", running |-> FALSE, frame_index |-> 0,
      image |-> None, exception |-> None,
      process |-> "running", pipe_printer |-> "running", shutdown |-> <<>> ]

\* Upscaler.__init__ (lines 73-82)
UpscalerInit ==
    [ pc |-> "created", running |-> FALSE, job |-> NoJob, value |-> None ]

\* A dict is a function on the set of its keys.
EmptyDict == [k \in {} |-> None]

PipelineInit ==
    /\ pause = FALSE
    /\ processing_queue = <<>>
    /\ processed_frames = [i \in Slots |-> None]
    /\ processed = 0
    /\ decoder = DecoderInit
    /\ encoder = EncoderInit
    /\ written = <<>>
    /\ upscaler = [w \in Workers |-> UpscalerInit]
    /\ processor_objects = [w \in Workers |-> EmptyDict]
    /\ constructed = [w \in Workers |-> <<>>]
    /\ used = [w \in Workers |-> <<>>]
    /\ stored = [i \in Slots |-> None]

Init ==
    /\ processing_settings \in ProcessingSettings
    /\ num_gpus \in 0..MaxGpus
    /\ PipelineInit
    /\ scaling = ScalingIdle

\* ----------------------------------------------------------- pause control
PauseSet ==
    /\ pause = FALSE
    /\ pause' = TRUE
    /\ UNCHANGED << config_vars, processing_queue, processed_frames,
                    decoder_vars, encoder_vars, upscaler_vars, scaling >>

PauseClear ==
    /\ pause = TRUE
    /\ pause' = FALSE
    /\ UNCHANGED << config_vars, processing_queue, processed_frames,
                    decoder_vars, encoder_vars, upscaler_vars, scaling >>

\* ------------------------------------------------------ VideoDecoder.run
decoder_unchanged ==
    UNCHANGED << config_vars, pause, processed_frames, encoder_vars,
                 upscaler_vars, scaling >>

\* lines 110-117
DecoderStart ==
    /\ decoder.pc = "created"
    /\ decoder' = [decoder EXCEPT !.pc = "loop", !.running = TRUE,
                                  !.frame_index = 0, !.previous_image = None]
    /\ UNCHANGED processing_queue
    /\ decoder_unchanged

\* lines 121-143: a whole frame is read and converted
DecoderRead ==
    /\ decoder.pc = "loop"
    /\ decoder.running
    /\ pause = FALSE
    /\ decoder.frame_index < TotalFrames
    /\ \E px \in Pixels :
          decoder' = [decoder EXCEPT !.pc = "put", !.image = frombytes(px)]
    /\ UNCHANGED processing_queue
    /\ decoder_unchanged

\* lines 136-138: the read returns nothing; self.stop(); continue
DecoderDepleted ==
    /\ decoder.pc = "loop"
    /\ decoder.running
    /\ pause = FALSE
    /\ decoder' = [decoder EXCEPT !.running = FALSE]
    /\ UNCHANGED processing_queue
    /\ decoder_unchanged

\* lines 141-143, 163-169: a short read makes Image.frombytes raise ValueError
DecoderReadErrorRetry ==
    /\ decoder.pc = "loop"
    /\ decoder.running
    /\ pause = FALSE
    /\ decoder' = [decoder EXCEPT !.exception = Error("ValueError")]
    /\ UNCHANGED processing_queue
    /\ decoder_unchanged

DecoderReadError ==
    /\ decoder.pc = "loop"
    /\ decoder.running
    /\ pause = FALSE
    /\ decoder' = [decoder EXCEPT !.pc = "shutdown",
                                  !.exception = Error("ValueError")]
    /\ UNCHANGED processing_queue
    /\ decoder_unchanged

\* the job tuple of lines 150-154 (the settings are those of the run)
FrameJobNoPrevious(frame_index, previous_image, image) ==
    [ frame_index |-> frame_index, image0 |-> None, image1 |-> image ]

FrameJob(frame_index, previous_image, image) ==
    [ frame_index |-> frame_index, image0 |-> previous_image,
      image1 |-> image ]

\* lines 147-160: put() finds room; then previous_image and frame_index
DecoderPutUnbounded ==
    /\ decoder.pc = "put"
    /\ decoder.running
    /\ processing_queue' =
          Append(processing_queue,
                 FrameJob(decoder.frame_index, decoder.previous_image,
                          decoder.image))
    /\ decoder' = [decoder EXCEPT !.pc = "loop",
                                  !.previous_image = decoder.image,
                                  !.image = None,
                                  !.frame_index = decoder.frame_index + 1]
    /\ decoder_unchanged

DecoderPut ==
    /\ decoder.pc = "put"
    /\ decoder.running
    /\ Len(processing_queue) < QueueSize
    /\ processing_queue' =
          Append(processing_queue,
                 FrameJob(decoder.frame_index, decoder.previous_image,
                          decoder.image))
    /\ decoder' = [decoder EXCEPT !.pc = "loop",
                                  !.previous_image = decoder.image,
                                  !.image = None,
                                  !.frame_index = decoder.frame_index + 1]
    /\ decoder_unchanged

\* lines 147, 159-160: running is False in the put loop, which ends without
\* a put; the two assignments after it still run
DecoderPutAbandon ==
    /\ decoder.pc = "put"
    /\ ~decoder.running
    /\ decoder' = [decoder EXCEPT !.pc = "loop",
                                  !.previous_image = decoder.image,
                                  !.image = None,
                                  !.frame_index = decoder.frame_index + 1]
    /\ UNCHANGED processing_queue
    /\ decoder_unchanged

\* lines 121, 176-177: the while condition is false
DecoderExit ==
    /\ decoder.pc = "loop"
    /\ ~decoder.running
    /\ decoder' = [decoder EXCEPT !.pc = "shutdown"]
    /\ UNCHANGED processing_queue
    /\ decoder_unchanged

\* lines 205-206: stop() called from outside
DecoderStop ==
    /\ decoder.running
    /\ decoder' = [decoder EXCEPT !.running = FALSE]
    /\ UNCHANGED processing_queue
    /\ decoder_unchanged

\* lines 179-181: stdout.flush(), stderr.flush()
DecoderFlush ==
    /\ decoder.pc = "shutdown"
    /\ decoder' = [decoder EXCEPT !.pc = "signal",
                                  !.shutdown = Append(@, "flush")]
    /\ UNCHANGED processing_queue
    /\ decoder_unchanged

\* lines 183-189: SIGINT is sent to FFmpeg
DecoderSignal ==
    /\ decoder.pc = "signal"
    /\ decoder' = [decoder EXCEPT !.pc = "close",
                                  !.shutdown = Append(@, "signal")]
    /\ UNCHANGED processing_queue
    /\ decoder_unchanged

\* lines 191-193: stdout.close(), stderr.close()
DecoderClose ==
    /\ decoder.pc = "close"
    /\ decoder' = [decoder EXCEPT !.pc = "wait",
                                  !.shutdown = Append(@, "close")]
    /\ UNCHANGED processing_queue
    /\ decoder_unchanged

\* FFmpeg, told to finalize by SIGINT, exits
DecoderProcessExit ==
    /\ decoder.process = "running"
    /\ decoder.pc \in {"close", "wait"}
    /\ decoder' = [decoder EXCEPT !.process = "exited"]
    /\ UNCHANGED processing_queue
    /\ decoder_unchanged

\* lines 195-196: decoder.wait() returns once the process has exited
DecoderWait ==
    /\ decoder.pc = "wait"
    /\ decoder.process = "exited"
    /\ decoder' = [decoder EXCEPT !.pc = "join",
                                  !.shutdown = Append(@, "wait")]
    /\ UNCHANGED processing_queue
    /\ decoder_unchanged

\* lines 198-203: pipe_printer.stop(), pipe_printer.join(); run() returns
DecoderJoin ==
    /\ decoder.pc = "join"
    /\ decoder' = [decoder EXCEPT !.pc = "finished",
                                  !.pipe_printer = "stopped",
                                  !.shutdown = Append(@, "join")]
    /\ UNCHANGED processing_queue
    /\ decoder_unchanged

\* ------------------------------------------------------ VideoEncoder.run
encoder_unchanged ==
    UNCHANGED << config_vars, pause, processing_queue, decoder_vars,
                 upscaler_vars, scaling >>

\* lines 142-143
EncoderStart ==
    /\ encoder.pc = "created"
    /\ encoder' = [encoder EXCEPT !.pc = "loop", !.running = TRUE,
                                  !.frame_index = 0]
    /\ UNCHANGED << processed_frames, written, processed >>
    /\ encoder_unchanged

\* lines 144-155: the slot at frame_index is read and holds an image
EncoderReadPassEmpty ==
    /\ encoder.pc = "loop"
    /\ encoder.running
    /\ encoder.frame_index < TotalFrames
    /\ pause = FALSE
    /\ IF processed_frames[encoder.frame_index] # None
       THEN encoder' = [encoder EXCEPT !.pc = "write",
                           !.image = processed_frames[encoder.frame_index]]
       ELSE encoder' = [encoder EXCEPT
                           !.frame_index = encoder.frame_index + 1]
    /\ UNCHANGED << processed_frames, written, processed >>
    /\ encoder_unchanged

EncoderRead ==
    /\ encoder.pc = "loop"
    /\ encoder.running
    /\ encoder.frame_index < TotalFrames
    /\ pause = FALSE
    /\ processed_frames[encoder.frame_index] # None
    /\ encoder' = [encoder EXCEPT !.pc = "write",
                      !.image = processed_frames[encoder.frame_index]]
    /\ UNCHANGED << processed_frames, written, processed >>
    /\ encoder_unchanged

\* line 158: encoder.stdin.write(image.tobytes())
EncoderWrite ==
    /\ encoder.pc = "write"
    /\ written' = Append(written, encoder.frame_index)
    /\ encoder' = [encoder EXCEPT !.pc = "clear", !.image = None]
    /\ UNCHANGED << processed_frames, processed >>
    /\ encoder_unchanged

\* lines 158, 169-172: the write raises (the pipe is broken)
EncoderWriteError ==
    /\ encoder.pc = "write"
    /\ encoder' = [encoder EXCEPT !.pc = "shutdown", !.image = None,
                                  !.exception = Error("OSError")]
    /\ UNCHANGED << processed_frames, written, processed >>
    /\ encoder_unchanged

\* line 161: processed_frames[frame_index] = None
EncoderClear ==
    /\ encoder.pc = "clear"
    /\ processed_frames' =
          [processed_frames EXCEPT ![encoder.frame_index] = None]
    /\ encoder' = [encoder EXCEPT !.pc = "count"]
    /\ UNCHANGED << written, processed >>
    /\ encoder_unchanged

\* lines 163-166: processed.value += 1 under its lock; frame_index += 1
EncoderCount ==
    /\ encoder.pc = "count"
    /\ processed' = processed + 1
    /\ encoder' = [encoder EXCEPT !.pc = "loop",
                                  !.frame_index = encoder.frame_index + 1]
    /\ UNCHANGED << processed_frames, written >>
    /\ encoder_unchanged

\* lines 144, 173-174: the while condition is false
EncoderExitOnEmpty ==
    /\ encoder.pc = "loop"
    /\ \/ ~(encoder.running /\ encoder.frame_index < TotalFrames)
       \/ processed_frames[encoder.frame_index] = None
    /\ encoder' = [encoder EXCEPT !.pc = "shutdown"]
    /\ UNCHANGED << processed_frames, written, processed >>
    /\ encoder_unchanged

EncoderExit ==
    /\ encoder.pc = "loop"
    /\ ~(encoder.running /\ encoder.frame_index < TotalFrames)
    /\ encoder' = [encoder EXCEPT !.pc = "shutdown"]
    /\ UNCHANGED << processed_frames, written, processed >>
    /\ encoder_unchanged

\* lines 202-203: stop() called from outside
EncoderStop ==
    /\ encoder.running
    /\ encoder' = [encoder EXCEPT !.running = FALSE]
    /\ UNCHANGED << processed_frames, written, processed >>
    /\ encoder_unchanged

\* lines 176-178: stdin.flush(), stderr.flush()
EncoderFlush ==
    /\ encoder.pc = "shutdown"
    /\ encoder' = [encoder EXCEPT !.pc = "signal",
                                  !.shutdown = Append(@, "flush")]
    /\ UNCHANGED << processed_frames, written, processed >>
    /\ encoder_unchanged

\* line 177, after a write that found the pipe broken: stdin still buffers
\* bytes, flush() raises BrokenPipeError again, outside every try, and run()
\* ends with it
EncoderFlushError ==
    /\ encoder.pc = "shutdown"
    /\ encoder.exception # None
    /\ encoder' = [encoder EXCEPT !.pc = "raised"]
    /\ UNCHANGED << processed_frames, written, processed >>
    /\ encoder_unchanged

\* lines 180-186: SIGINT is sent to FFmpeg
EncoderSignal ==
    /\ encoder.pc = "signal"
    /\ encoder' = [encoder EXCEPT !.pc = "close",
                                  !.shutdown = Append(@, "signal")]
    /\ UNCHANGED << processed_frames, written, processed >>
    /\ encoder_unchanged

\* lines 188-190: stdin.close(), stderr.close()
EncoderClose ==
    /\ encoder.pc = "close"
    /\ encoder' = [encoder EXCEPT !.pc = "wait",
                                  !.shutdown = Append(@, "close")]
    /\ UNCHANGED << processed_frames, written, processed >>
    /\ encoder_unchanged

\* FFmpeg, told to finalize by SIGINT and the end of its input, exits
EncoderProcessExit ==
    /\ encoder.process = "running"
    /\ encoder.pc \in {"close", "wait"}
    /\ encoder' = [encoder EXCEPT !.process = "exited"]
    /\ UNCHANGED << processed_frames, written, processed >>
    /\ encoder_unchanged

\* lines 192-193: encoder.wait() returns once the process has exited
EncoderWait ==
    /\ encoder.pc = "wait"
    /\ encoder.process = "exited"
    /\ encoder' = [encoder EXCEPT !.pc = "join",
                                  !.shutdown = Append(@, "wait")]
    /\ UNCHANGED << processed_frames, written, processed >>
    /\ encoder_unchanged

\* lines 195-200: pipe_printer.stop(), pipe_printer.join(); run() returns
EncoderJoin ==
    /\ encoder.pc = "join"
    /\ encoder' = [encoder EXCEPT !.pc = "finished",
                                  !.pipe_printer = "stopped",
                                  !.shutdown = Append(@, "join")]
    /\ UNCHANGED << processed_frames, written, processed >>
    /\ encoder_unchanged

\* ---------------------------------------------------------- Upscaler.run
upscaler_unchanged ==
    UNCHANGED << config_vars, pause, decoder_vars, encoder_vars, scaling >>

\* line 200: processor_objects.get((algorithm, job))
dict_get_miss(d, key) == None

dict_get(d, key) == IF key \in DOMAIN d THEN d[key] ELSE None

\* line 207: processor_objects[(algorithm, job)] = processor_object
dict_set(d, key, v) ==
    [k \in (DOMAIN d) \cup {key} |-> IF k = key THEN v ELSE d[k]]

\* lines 202-206: ALGORITHM_CLASSES[algorithm](gpuid=..., noise=..., scale=job
\* [, model=algo_model]); serial tells apart the objects one worker made.
\* Only called with num_gpus > 0.
NewProcessor(w, settings, job, serial) ==
    [ cls |-> AlgorithmName(settings.algorithm),
      model |-> IF startswith_superres(settings.algorithm)
                THEN settings.algorithm[2] ELSE None,
      gpuid |-> w % num_gpus, noise |-> settings.noise, scale |-> job,
      owner |-> w, serial |-> serial ]

\* lines 196-210: one pass of "for job in scaling_jobs" on
\* st = [image, objects, constructed, used, error]
RunJob(w, settings, st, job) ==
    LET key == <<AlgorithmName(settings.algorithm), job>>
        processor_object == dict_get(st.objects, key)
        new == NewProcessor(w, settings, job, Len(st.constructed) + 1)
    IN  IF st.error # None THEN st
        ELSE IF processor_object = None
        THEN IF num_gpus = 0
             THEN [st EXCEPT !.error = Error("ZeroDivisionError")]
             ELSE [ image |-> process(new, st.image),
                    objects |-> dict_set(st.objects, key, new),
                    constructed |-> Append(st.constructed, key),
                    used |-> Append(st.used, new),
                    error |-> None ]
        ELSE [st EXCEPT !.image = process(processor_object, st.image),
                        !.used = Append(st.used, processor_object)]

RECURSIVE RunJobs(_, _, _, _)
RunJobs(w, settings, st, jobs) ==
    IF jobs = <<>> THEN st
    ELSE CHOOSE r \in {RunJobs(w, settings, next, Tail(jobs)) :
                          next \in {RunJob(w, settings, st, Head(jobs))}} : TRUE

\* lines 145-214: the else branch up to the resize, for worker w holding job
Upscale(w, settings, job) ==
    LET width == job.image1.size[1]
        height == job.image1.size[2]
        ratios == supported_scaling_ratios(settings.algorithm)
        target == remaining_scaling_ratio(settings.output_width,
                                          settings.output_height,
                                          width, height)
        start == [ image |-> [size |-> job.image1.size,
                              frame |-> job.frame_index],
                   objects |-> processor_objects[w],
                   constructed |-> constructed[w],
                   used |-> <<>>, error |-> None ]
    IN  CHOOSE r \in
           { [st EXCEPT !.image = resize(st.image, settings.output_width,
                                         settings.output_height)] :
                st \in { RunJobs(w, settings, start, jobs) :
                            jobs \in {scaling_jobs(ratios, target)} } } : TRUE

\* lines 87-91
UpscalerStart(w) ==
    /\ upscaler[w].pc = "created"
    /\ upscaler' = [upscaler EXCEPT ![w].pc = "loop", ![w].running = TRUE]
    /\ processor_objects' = [processor_objects EXCEPT ![w] = EmptyDict]
    /\ UNCHANGED << processing_queue, processed_frames, constructed, used,
                    stored >>
    /\ upscaler_unchanged

\* lines 92-140: a job is taken from the queue and the branch is chosen
UpscalerGetPeek(w) ==
    /\ upscaler[w].pc = "loop"
    /\ upscaler[w].running
    /\ pause = FALSE
    /\ processing_queue # <<>>
    /\ LET job == Head(processing_queue)
       IN  upscaler' =
             [upscaler EXCEPT
                ![w].job = job,
                ![w].pc =
                   IF difference_below(job.image0, job.image1,
                         processing_settings.difference_threshold)
                   THEN IF job.frame_index > 0 THEN "wait" ELSE "copy"
                   ELSE "scale"]
    /\ UNCHANGED << processing_queue, processed_frames, processor_objects,
                    constructed, used, stored >>
    /\ upscaler_unchanged

UpscalerGet(w) ==
    /\ upscaler[w].pc = "loop"
    /\ upscaler[w].running
    /\ pause = FALSE
    /\ processing_queue # <<>>
    /\ LET job == Head(processing_queue)
       IN  upscaler' =
             [upscaler EXCEPT
                ![w].job = job,
                ![w].pc =
                   IF difference_below(job.image0, job.image1,
                         processing_settings.difference_threshold)
                   THEN IF job.frame_index > 0 THEN "wait" ELSE "copy"
                   ELSE "scale"]
    /\ processing_queue' = Tail(processing_queue)
    /\ UNCHANGED << processed_frames, processor_objects, constructed, used,
                    stored >>
    /\ upscaler_unchanged

\* lines 134-135: processed_frames[frame_index - 1] is found not None
UpscalerWait(w) ==
    /\ upscaler[w].pc = "wait"
    /\ processed_frames[ListIndex(upscaler[w].job.frame_index - 1)] # None
    /\ upscaler' = [upscaler EXCEPT ![w].pc = "copy"]
    /\ UNCHANGED << processing_queue, processed_frames, processor_objects,
                    constructed, used, stored >>
    /\ upscaler_unchanged

\* lines 138-140, right-hand side: processed_frames[frame_index - 1] is read
UpscalerCopyRead(w) ==
    /\ upscaler[w].pc = "copy"
    /\ upscaler' =
          [upscaler EXCEPT
             ![w].pc = "store",
             ![w].value =
                processed_frames[ListIndex(upscaler[w].job.frame_index - 1)]]
    /\ UNCHANGED << processing_queue, processed_frames, processor_objects,
                    constructed, used, stored >>
    /\ upscaler_unchanged

\* line 138, left-hand side: processed_frames[frame_index] is assigned
UpscalerCopyStore(w) ==
    /\ upscaler[w].pc = "store"
    /\ processed_frames' =
          [processed_frames EXCEPT
             ![upscaler[w].job.frame_index] = upscaler[w].value]
    /\ stored' = [stored EXCEPT ![upscaler[w].job.frame_index] =
                     [path |-> "skip", value |-> upscaler[w].value]]
    /\ upscaler' = [upscaler EXCEPT ![w].pc = "loop", ![w].job = NoJob,
                                    ![w].value = None]
    /\ UNCHANGED << processing_queue, processor_objects, constructed, used >>
    /\ upscaler_unchanged

\* lines 145-215: the frame is upscaled, resized and stored
UpscalerScale(w) ==
    /\ upscaler[w].pc = "scale"
    /\ \E st \in {Upscale(w, processing_settings, upscaler[w].job)} :
           /\ st.error = None
           /\ processed_frames' =
                 [processed_frames EXCEPT
                    ![upscaler[w].job.frame_index] = st.image]
           /\ stored' = [stored EXCEPT ![upscaler[w].job.frame_index] =
                            [path |-> "scale", value |-> st.image]]
           /\ processor_objects' =
                 [processor_objects EXCEPT ![w] = st.objects]
           /\ constructed' = [constructed EXCEPT ![w] = st.constructed]
           /\ used' = [used EXCEPT ![w] = st.used]
    /\ upscaler' = [upscaler EXCEPT ![w].pc = "loop", ![w].job = NoJob]
    /\ UNCHANGED processing_queue
    /\ upscaler_unchanged

\* lines 202, 221-228: an exception in the else branch ends the loop; the
\* job of the failed iteration stays in the locals of run()
UpscalerScaleErrorRequeue(w) ==
    /\ upscaler[w].pc = "scale"
    /\ Upscale(w, processing_settings, upscaler[w].job).error # None
    /\ upscaler' = [upscaler EXCEPT ![w].pc = "terminated"]
    /\ processing_queue' = Append(processing_queue, upscaler[w].job)
    /\ UNCHANGED << processed_frames, processor_objects, constructed, used,
                    stored >>
    /\ upscaler_unchanged

UpscalerScaleError(w) ==
    /\ upscaler[w].pc = "scale"
    /\ Upscale(w, processing_settings, upscaler[w].job).error # None
    /\ upscaler' = [upscaler EXCEPT ![w].pc = "terminated"]
    /\ UNCHANGED << processing_queue, processed_frames, processor_objects,
                    constructed, used, stored >>
    /\ upscaler_unchanged

\* lines 92, 225-228: the while condition is false
UpscalerExit(w) ==
    /\ upscaler[w].pc = "loop"
    /\ ~upscaler[w].running
    /\ upscaler' = [upscaler EXCEPT ![w].pc = "terminated"]
    /\ UNCHANGED << processing_queue, processed_frames, processor_objects,
                    constructed, used, stored >>
    /\ upscaler_unchanged

\* lines 84, 230-231: SIGTERM runs _stop
UpscalerStop(w) ==
    /\ upscaler[w].running
    /\ upscaler[w].pc # "terminated"
    /\ upscaler' = [upscaler EXCEPT ![w].running = FALSE]
    /\ UNCHANGED << processing_queue, processed_frames, processor_objects,
                    constructed, used, stored >>
    /\ upscaler_unchanged

\* ------------------------------------------------------------ the pipeline
DecoderStep ==
    \/ DecoderStart
    \/ DecoderRead
    \/ DecoderDepleted
    \/ DecoderReadError
    \/ DecoderPut
    \/ DecoderPutAbandon
    \/ DecoderExit

EncoderStep ==
    \/ EncoderStart
    \/ EncoderRead
    \/ EncoderWrite
    \/ EncoderWriteError
    \/ EncoderClear
    \/ EncoderCount
    \/ EncoderExit

UpscalerStep(w) ==
    \/ UpscalerStart(w)
    \/ UpscalerGet(w)
    \/ UpscalerWait(w)
    \/ UpscalerCopyRead(w)
    \/ UpscalerCopyStore(w)
    \/ UpscalerScale(w)
    \/ UpscalerScaleError(w)
    \/ UpscalerExit(w)

Next ==
    \/ DecoderStart
    \/ DecoderRead
    \/ DecoderDepleted
    \/ DecoderReadError
    \/ DecoderPut
    \/ DecoderPutAbandon
    \/ DecoderExit
    \/ DecoderStop
    \/ EncoderStart
    \/ EncoderRead
    \/ EncoderWrite
    \/ EncoderWriteError
    \/ EncoderClear
    \/ EncoderCount
    \/ EncoderExit
    \/ EncoderStop
    \/ \E w \in Workers : UpscalerStart(w)
    \/ \E w \in Workers : UpscalerGet(w)
    \/ \E w \in Workers : UpscalerWait(w)
    \/ \E w \in Workers : UpscalerCopyRead(w)
    \/ \E w \in Workers : UpscalerCopyStore(w)
    \/ \E w \in Workers : UpscalerScale(w)
    \/ \E w \in Workers : UpscalerScaleError(w)
    \/ PauseSet
    \/ PauseClear

\* The pipeline with its pause controller and the stop() of its two threads;
\* no SIGTERM reaches a worker, so no worker finds running False.
Spec == Init /\ [][Next]_vars

\* The same with SIGTERM delivered to the worker processes.
NextTerm ==
    \/ Next
    \/ \E w \in Workers : UpscalerStop(w)
    \/ \E w \in Workers : UpscalerExit(w)

SpecTerm == Init /\ [][NextTerm]_vars

\* Every thread and process keeps running: a stage that can take a step
\* takes one.  Nothing is assumed of the pause controller or the stop calls.
Fairness ==
    /\ WF_vars(DecoderStep)
    /\ WF_vars(EncoderStep)
    /\ \A w \in Workers : WF_vars(UpscalerStep(w))

FairSpec == Init /\ [][Next]_vars /\ Fairness

\* ------------------------------------------- the pause check as its own step
\* In the steps above a stage reads pause.value and goes on to its next
\* access of a shared object in one step.  Here the read of pause.value is a
\* step of its own, so that the flag can be set between the check and the
\* access that follows it; an access that finds nothing (no frame, no job,
\* an empty slot) returns to the check.

\* decoder.py lines 121-126: running is True and the flag is clear
DecoderPauseCheck ==
    /\ decoder.pc = "loop"
    /\ decoder.running
    /\ pause = FALSE
    /\ decoder' = [decoder EXCEPT !.pc = "read"]
    /\ UNCHANGED processing_queue
    /\ decoder_unchanged

\* decoder.py lines 129-143: a whole frame is read and converted
DecoderReadFrame ==
    /\ decoder.pc = "read"
    /\ decoder.frame_index < TotalFrames
    /\ \E px \in Pixels :
          decoder' = [decoder EXCEPT !.pc = "put", !.image = frombytes(px)]
    /\ UNCHANGED processing_queue
    /\ decoder_unchanged

\* decoder.py lines 136-138: the read returns nothing; self.stop(); continue
DecoderReadNothing ==
    /\ decoder.pc = "read"
    /\ decoder' = [decoder EXCEPT !.pc = "loop", !.running = FALSE]
    /\ UNCHANGED processing_queue
    /\ decoder_unchanged

\* encoder.py lines 144-149: the loop condition holds and the flag is clear
EncoderPauseCheck ==
    /\ encoder.pc = "loop"
    /\ encoder.running
    /\ encoder.frame_index < TotalFrames
    /\ pause = FALSE
    /\ encoder' = [encoder EXCEPT !.pc = "read"]
    /\ UNCHANGED << processed_frames, written, processed >>
    /\ encoder_unchanged

\* encoder.py lines 152-153: the slot at frame_index holds an image
EncoderReadSlot ==
    /\ encoder.pc = "read"
    /\ processed_frames[encoder.frame_index] # None
    /\ encoder' = [encoder EXCEPT !.pc = "write",
                      !.image = processed_frames[encoder.frame_index]]
    /\ UNCHANGED << processed_frames, written, processed >>
    /\ encoder_unchanged

\* encoder.py lines 152-155: the slot is None; sleep and continue
EncoderReadNone ==
    /\ encoder.pc = "read"
    /\ processed_frames[encoder.frame_index] = None
    /\ encoder' = [encoder EXCEPT !.pc = "loop"]
    /\ UNCHANGED << processed_frames, written, processed >>
    /\ encoder_unchanged

\* upscaler.py lines 92-97: running is True and the flag is clear
UpscalerPauseCheckIgnored(w) ==
    /\ upscaler[w].pc = "loop"
    /\ upscaler[w].running
    /\ upscaler' = [upscaler EXCEPT ![w].pc = "get"]
    /\ UNCHANGED << processing_queue, processed_frames, processor_objects,
                    constructed, used, stored >>
    /\ upscaler_unchanged

UpscalerPauseCheck(w) ==
    /\ upscaler[w].pc = "loop"
    /\ upscaler[w].running
    /\ pause = FALSE
    /\ upscaler' = [upscaler EXCEPT ![w].pc = "get"]
    /\ UNCHANGED << processing_queue, processed_frames, processor_objects,
                    constructed, used, stored >>
    /\ upscaler_unchanged

\* upscaler.py lines 99-140: get(False) returns a job; the branch is chosen
UpscalerGetJob(w) ==
    /\ upscaler[w].pc = "get"
    /\ processing_queue # <<>>
    /\ LET job == Head(processing_queue)
       IN  upscaler' =
             [upscaler EXCEPT
                ![w].job = job,
                ![w].pc =
                   IF difference_below(job.image0, job.image1,
                         processing_settings.difference_threshold)
                   THEN IF job.frame_index > 0 THEN "wait" ELSE "copy"
                   ELSE "scale"]
    /\ processing_queue' = Tail(processing_queue)
    /\ UNCHANGED << processed_frames, processor_objects, constructed, used,
                    stored >>
    /\ upscaler_unchanged

\* upscaler.py lines 111-116: get(False) raises queue.Empty; sleep, continue
UpscalerGetEmpty(w) ==
    /\ upscaler[w].pc = "get"
    /\ processing_queue = <<>>
    /\ upscaler' = [upscaler EXCEPT ![w].pc = "loop"]
    /\ UNCHANGED << processing_queue, processed_frames, processor_objects,
                    constructed, used, stored >>
    /\ upscaler_unchanged

\* A run without errors and without stop requests (a GPU is present), with
\* the pause controller setting and clearing the flag at any moment.
InitPause ==
    /\ processing_settings \in ProcessingSettings
    /\ num_gpus = MaxGpus
    /\ PipelineInit
    /\ scaling = ScalingIdle

NextPause ==
    \/ PauseSet
    \/ PauseClear
    \/ DecoderStart
    \/ DecoderPauseCheck
    \/ DecoderReadFrame
    \/ DecoderReadNothing
    \/ DecoderPut
    \/ DecoderExit
    \/ EncoderStart
    \/ EncoderPauseCheck
    \/ EncoderReadSlot
    \/ EncoderReadNone
    \/ EncoderWrite
    \/ EncoderClear
    \/ EncoderCount
    \/ EncoderExit
    \/ \E w \in Workers : UpscalerStart(w)
    \/ \E w \in Workers : UpscalerPauseCheck(w)
    \/ \E w \in Workers : UpscalerGetJob(w)
    \/ \E w \in Workers : UpscalerGetEmpty(w)
    \/ \E w \in Workers : UpscalerWait(w)
    \/ \E w \in Workers : UpscalerCopyRead(w)
    \/ \E w \in Workers : UpscalerCopyStore(w)
    \/ \E w \in Workers : UpscalerScale(w)

SpecPause == InitPause /\ [][NextPause]_vars

\* --------------------------------------------------- workers being stopped
\* The pipeline with SIGTERM delivered to worker processes at any moment;
\* the pause flag stays clear and the two threads are neither stopped nor
\* fail.
NextStop ==
    \/ DecoderStart
    \/ DecoderRead
    \/ DecoderDepleted
    \/ DecoderPut
    \/ DecoderExit
    \/ EncoderStart
    \/ EncoderRead
    \/ EncoderWrite
    \/ EncoderClear
    \/ EncoderCount
    \/ EncoderExit
    \/ \E w \in Workers : UpscalerStart(w)
    \/ \E w \in Workers : UpscalerGet(w)
    \/ \E w \in Workers : UpscalerWait(w)
    \/ \E w \in Workers : UpscalerCopyRead(w)
    \/ \E w \in Workers : UpscalerCopyStore(w)
    \/ \E w \in Workers : UpscalerScale(w)
    \/ \E w \in Workers : UpscalerScaleError(w)
    \/ \E w \in Workers : UpscalerExit(w)
    \/ \E w \in Workers : UpscalerStop(w)

SpecStop == Init /\ [][NextStop]_vars

\* ------------------------------------------------ the two threads' shutdown
\* A run in which every frame is scaled (difference_threshold = 0, a GPU is
\* present) and one process of the pool has begun run(); the decoder and the
\* encoder go through their loops, are stopped or fail, and shut down.
InitShutdown ==
    /\ processing_settings \in
          {x \in ProcessingSettings : x.difference_threshold = 0}
    /\ num_gpus = MaxGpus
    /\ PipelineInit
    /\ scaling = ScalingIdle

NextShutdown ==
    \/ DecoderStart
    \/ DecoderRead
    \/ DecoderDepleted
    \/ DecoderReadError
    \/ DecoderPut
    \/ DecoderPutAbandon
    \/ DecoderExit
    \/ DecoderStop
    \/ DecoderFlush
    \/ DecoderSignal
    \/ DecoderClose
    \/ DecoderProcessExit
    \/ DecoderWait
    \/ DecoderJoin
    \/ EncoderStart
    \/ EncoderRead
    \/ EncoderWrite
    \/ EncoderWriteError
    \/ EncoderClear
    \/ EncoderCount
    \/ EncoderExit
    \/ EncoderStop
    \/ EncoderFlush
    \/ EncoderFlushError
    \/ EncoderSignal
    \/ EncoderClose
    \/ EncoderProcessExit
    \/ EncoderWait
    \/ EncoderJoin
    \/ \E w \in {0} : UpscalerStart(w)
    \/ \E w \in {0} : UpscalerGet(w)
    \/ \E w \in {0} : UpscalerScale(w)

SpecShutdown == InitShutdown /\ [][NextShutdown]_vars

\* ------------------------------------------- one scaling computation alone
\* lines 145-214 for one image, one iteration of the while loop per step
ScalingRatios ==
    { sorted(ALGORITHM_FIXED_SCALING_RATIOS[a]) :
         a \in DOMAIN ALGORITHM_FIXED_SCALING_RATIOS } \cup {ScenarioRatios}

ScalingInputs ==
    { [ pc |-> "start", ratios |-> r, size |-> <<w, h>>,
        output_width |-> ow, output_height |-> oh, target |-> 0,
        st |-> [ num |-> 0, den |-> 1, scaling_jobs |-> <<>>,
                 rule |-> <<>> ] ] :
          r \in ScalingRatios, w \in 1..2, h \in 1..2,
          ow \in 1..MaxOutput, oh \in 1..MaxOutput }

InitScaling ==
    /\ processing_settings = CHOOSE x \in ProcessingSettings : TRUE
    /\ num_gpus = MaxGpus
    /\ PipelineInit
    /\ scaling \in ScalingInputs

scaling_unchanged ==
    UNCHANGED << config_vars, pause, processing_queue, processed_frames,
                 decoder_vars, encoder_vars, upscaler_vars >>

\* lines 145-169
ScalingTarget ==
    /\ scaling.pc = "start"
    /\ LET target == remaining_scaling_ratio(scaling.output_width,
                                             scaling.output_height,
                                             scaling.size[1], scaling.size[2])
       IN  scaling' = [scaling EXCEPT !.pc = "loop", !.target = target,
                                      !.st = ScaleStart(scaling.ratios, target)]
    /\ scaling_unchanged

\* lines 171-194, one iteration
ScalingIterate ==
    /\ scaling.pc = "loop"
    /\ ScaleLoopRuns(scaling.st)
    /\ scaling' = [scaling EXCEPT
                      !.st = ScaleIteration(scaling.ratios, scaling.st)]
    /\ scaling_unchanged

\* lines 210, 214: the image after every step, then resized
RECURSIVE ProcessAll(_, _)
ProcessAll(image, jobs) ==
    IF jobs = <<>> THEN image
    ELSE ProcessAll(process([scale |-> Head(jobs)], image), Tail(jobs))

ScalingRun ==
    /\ scaling.pc = "loop"
    /\ ~ScaleLoopRuns(scaling.st)
    /\ scaling' =
          [scaling EXCEPT
             !.pc = "done",
             !.size = resize(ProcessAll([size |-> scaling.size],
                                        scaling.st.scaling_jobs),
                             scaling.output_width,
                             scaling.output_height).size]
    /\ scaling_unchanged

NextScaling ==
    \/ ScalingTarget
    \/ ScalingIterate
    \/ ScalingRun

SpecScaling == InitScaling /\ [][NextScaling]_vars

\* The computation is straight-line code in one process: it keeps running.
FairSpecScaling == SpecScaling /\ WF_vars(NextScaling)

\* ------------------------------------------------- start and stop requests
\* A run in which the caller's start() and stop() of each stage are steps of
\* their own: a stage records that start() was called on it and that stop()
\* was called on it (SIGTERM delivered, for a process of the pool). Every
\* frame is scaled and one process of the pool is started.
Callable(stage) == stage @@ [started |-> FALSE, stop_called |-> FALSE]

InitStart ==
    /\ processing_settings \in
          {x \in ProcessingSettings : x.difference_threshold = 0}
    /\ num_gpus = MaxGpus
    /\ pause = FALSE
    /\ processing_queue = <<>>
    /\ processed_frames = [i \in Slots |-> None]
    /\ processed = 0
    /\ decoder = Callable(DecoderInit)
    /\ encoder = Callable(EncoderInit)
    /\ written = <<>>
    /\ upscaler = [w \in Workers |-> Callable(UpscalerInit)]
    /\ processor_objects = [w \in Workers |-> EmptyDict]
    /\ constructed = [w \in Workers |-> <<>>]
    /\ used = [w \in Workers |-> <<>>]
    /\ stored = [i \in Slots |-> None]
    /\ scaling = ScalingIdle

\* threading.Thread.start() of the decoder: run() is scheduled, not yet begun
DecoderThreadStart ==
    /\ decoder.pc = "created"
    /\ ~decoder.started
    /\ decoder' = [decoder EXCEPT !.started = TRUE]
    /\ UNCHANGED processing_queue
    /\ decoder_unchanged

\* lines 109-117: run() begins in the started thread
DecoderRunBegin ==
    /\ decoder.started
    /\ DecoderStart

\* lines 205-206: stop() called once, at any moment after start()
DecoderStopCall ==
    /\ decoder.started
    /\ ~decoder.stop_called
    /\ decoder' = [decoder EXCEPT !.running = FALSE, !.stop_called = TRUE]
    /\ UNCHANGED processing_queue
    /\ decoder_unchanged

\* threading.Thread.start() of the encoder
EncoderThreadStart ==
    /\ encoder.pc = "created"
    /\ ~encoder.started
    /\ encoder' = [encoder EXCEPT !.started = TRUE]
    /\ UNCHANGED << processed_frames, written, processed >>
    /\ encoder_unchanged

\* lines 141-143: run() begins in the started thread
EncoderRunBegin ==
    /\ encoder.started
    /\ EncoderStart

\* lines 202-203: stop() called once, at any moment after start()
EncoderStopCall ==
    /\ encoder.started
    /\ ~encoder.stop_called
    /\ encoder' = [encoder EXCEPT !.running = FALSE, !.stop_called = TRUE]
    /\ UNCHANGED << processed_frames, written, processed >>
    /\ encoder_unchanged

\* multiprocessing.Process.start() of worker w: the child holds the SIGTERM
\* handler installed in __init__ (line 84), run() not yet begun
UpscalerProcessStart(w) ==
    /\ upscaler[w].pc = "created"
    /\ ~upscaler[w].started
    /\ upscaler' = [upscaler EXCEPT ![w].started = TRUE]
    /\ UNCHANGED << processing_queue, processed_frames, processor_objects,
                    constructed, used, stored >>
    /\ upscaler_unchanged

\* lines 86-91: run() begins in the child process
UpscalerRunBegin(w) ==
    /\ upscaler[w].started
    /\ UpscalerStart(w)

\* lines 84, 230-231: SIGTERM delivered once to the started process
UpscalerStopSignal(w) ==
    /\ upscaler[w].started
    /\ ~upscaler[w].stop_called
    /\ upscaler[w].pc # "terminated"
    /\ upscaler' = [upscaler EXCEPT ![w].running = FALSE,
                                    ![w].stop_called = TRUE]
    /\ UNCHANGED << processing_queue, processed_frames, processor_objects,
                    constructed, used, stored >>
    /\ upscaler_unchanged

NextStart ==
    \/ DecoderThreadStart
    \/ DecoderRunBegin
    \/ DecoderStopCall
    \/ DecoderRead
    \/ DecoderDepleted
    \/ DecoderPut
    \/ DecoderPutAbandon
    \/ DecoderExit
    \/ EncoderThreadStart
    \/ EncoderRunBegin
    \/ EncoderStopCall
    \/ EncoderRead
    \/ EncoderWrite
    \/ EncoderClear
    \/ EncoderCount
    \/ EncoderExit
    \/ \E w \in {0} : UpscalerProcessStart(w)
    \/ \E w \in {0} : UpscalerRunBegin(w)
    \/ \E w \in {0} : UpscalerStopSignal(w)
    \/ \E w \in {0} : UpscalerGet(w)
    \/ \E w \in {0} : UpscalerScale(w)
    \/ \E w \in {0} : UpscalerExit(w)

SpecStart == InitStart /\ [][NextStart]_vars

\* ------------------------------------------------------- the complete run
\* A run to completion: every frame is scaled (difference_threshold = 0), a
\* GPU is present, the source holds TotalFrames frames, nothing fails and
\* nobody calls stop(); the pause controller sets and clears the flag. Two
\* processes of the pool are started.
InitRun ==
    /\ processing_settings \in
          {x \in ProcessingSettings : x.difference_threshold = 0}
    /\ num_gpus = MaxGpus
    /\ PipelineInit
    /\ scaling = ScalingIdle

\* lines 133-138: the empty read that follows the last frame of the source
DecoderSourceEndEarly ==
    /\ decoder.frame_index = TotalFrames - 1
    /\ DecoderDepleted

DecoderSourceEnd ==
    /\ decoder.frame_index = TotalFrames
    /\ DecoderDepleted

DecoderRun ==
    \/ DecoderStart
    \/ DecoderRead
    \/ DecoderSourceEnd
    \/ DecoderPut
    \/ DecoderExit

EncoderRun ==
    \/ EncoderStart
    \/ EncoderRead
    \/ EncoderWrite
    \/ EncoderClear
    \/ EncoderCount
    \/ EncoderExit

UpscalerRun(w) ==
    \/ UpscalerStart(w)
    \/ UpscalerGet(w)
    \/ UpscalerScale(w)

\* the processes of the pool that are started in this run
RunWorkers == {w \in Workers : w < 2}

NextRun ==
    \/ DecoderStart
    \/ DecoderRead
    \/ DecoderSourceEnd
    \/ DecoderPut
    \/ DecoderExit
    \/ EncoderStart
    \/ EncoderRead
    \/ EncoderWrite
    \/ EncoderClear
    \/ EncoderCount
    \/ EncoderExit
    \/ \E w \in RunWorkers : UpscalerStart(w)
    \/ \E w \in RunWorkers : UpscalerGet(w)
    \/ \E w \in RunWorkers : UpscalerScale(w)
    \/ PauseSet
    \/ PauseClear

\* Every stage is a thread or a process of its own that the scheduler keeps
\* running. A stage that finds the flag set sleeps 0.1 s and tests it again
\* (decoder.py:124-126, upscaler.py:95-97, encoder.py:147-149), and so does a
\* stage in front of a full queue, an empty queue or an empty slot: a stage
\* whose step is possible again and again takes it. The flag is not left set.
FairnessRun ==
    /\ SF_vars(DecoderRun)
    /\ SF_vars(EncoderRun)
    /\ \A w \in RunWorkers : SF_vars(UpscalerRun(w))
    /\ WF_vars(PauseClear)

FairSpecRun == InitRun /\ [][NextRun]_vars /\ FairnessRun

\* ================================================================ claims
\* ---- scale-ratio decomposition (SpecScaling)
ScalingDecomposed == scaling.pc = "done"

SingleFits == {k \in 1..Len(scaling.ratios) :
                  scaling.ratios[k] >= scaling.target}

PairFits == {p \in (1..Len(scaling.ratios)) \X (1..Len(scaling.ratios)) :
                scaling.ratios[p[1]] * scaling.ratios[p[2]] >= scaling.target}

\* C5: when the target R = ceil(output_scale) is at least 2 and some single
\* ratio is >= R, the step list is exactly the one-element list holding the
\* smallest such ratio, chosen by the single-ratio scan and not as a pair;
\* ratios [2,4,8] with R = 3 gives [4].
C5_SingleStep ==
    (ScalingDecomposed /\ scaling.target >= 2 /\ SingleFits # {}) =>
        /\ Len(scaling.st.scaling_jobs) = 1
        /\ scaling.st.scaling_jobs[1] >= scaling.target
        /\ \A k \in SingleFits :
              scaling.st.scaling_jobs[1] <= scaling.ratios[k]
        /\ scaling.st.rule = <<"single">>
        /\ (scaling.ratios = <<2, 4, 8>> /\ scaling.target = 3) =>
              scaling.st.scaling_jobs = <<4>>

C5_Witness ==
    /\ ScalingDecomposed
    /\ scaling.ratios = <<2, 4, 8>>
    /\ scaling.target = 3
    /\ scaling.st.scaling_jobs = <<4>>

\* C6: when no single ratio is >= R but some ordered pair of ratios has a
\* product >= R, the step list is exactly [i, j] for the first such pair in
\* scan order (i outer ascending, j inner ascending); ratios [2,3,4] with
\* R = 11 gives [3,4].
C6_PairFallback ==
    (ScalingDecomposed /\ scaling.target >= 2 /\ SingleFits = {}
       /\ PairFits # {}) =>
        /\ Len(scaling.st.scaling_jobs) = 2
        /\ scaling.st.rule = <<"pair">>
        /\ \E p \in PairFits :
              /\ scaling.st.scaling_jobs =
                    <<scaling.ratios[p[1]], scaling.ratios[p[2]]>>
              /\ \A q \in PairFits :
                    p[1] < q[1] \/ (p[1] = q[1] /\ p[2] <= q[2])
        /\ (scaling.ratios = <<2, 3, 4>> /\ scaling.target = 11) =>
              scaling.st.scaling_jobs = <<3, 4>>

C6_Witness ==
    /\ ScalingDecomposed
    /\ scaling.ratios = <<2, 3, 4>>
    /\ scaling.target = 11
    /\ scaling.st.scaling_jobs = <<3, 4>>

ScenarioDecomposed ==
    /\ ScalingDecomposed
    /\ scaling.ratios = ScenarioRatios
    /\ scaling.target = 8

\* C7 as stated: for ratios [2] and a target of 8 the step list is [2,2,2],
\* every step appended by the largest-ratio fallback on an iteration of its
\* own.
C7_FallbackOnEveryIteration ==
    ScenarioDecomposed =>
        /\ scaling.st.scaling_jobs = <<2, 2, 2>>
        /\ scaling.st.rule = <<"largest", "largest", "largest">>

\* C7 as amended: for ratios [2] and a target of 8 the step list is [2,2,2]
\* (product 8), produced in two iterations: the largest-ratio fallback
\* appends 2 on the first (remaining 4), the pair search appends (2,2) on
\* the second.
C7_FallbackThenPair ==
    ScenarioDecomposed =>
        /\ scaling.st.scaling_jobs = <<2, 2, 2>>
        /\ Product(scaling.st.scaling_jobs) = 8
        /\ scaling.st.rule = <<"largest", "pair">>

C7_Witness ==
    /\ ScenarioDecomposed
    /\ scaling.st.scaling_jobs = <<2, 2, 2>>
    /\ scaling.st.rule = <<"largest", "pair">>

\* C8: for every ratio table and every target R >= 1 the decomposition
\* returns a non-empty list whose steps are all members of the table and
\* whose product is >= R; when R = 1 the list is exactly [smallest ratio].
C8_ProductCoversTarget ==
    ScalingDecomposed =>
        /\ scaling.st.scaling_jobs # <<>>
        /\ \A n \in 1..Len(scaling.st.scaling_jobs) :
              \E k \in 1..Len(scaling.ratios) :
                 scaling.st.scaling_jobs[n] = scaling.ratios[k]
        /\ Product(scaling.st.scaling_jobs) >= scaling.target
        /\ scaling.target >= 1
        /\ scaling.target = 1 =>
              /\ Len(scaling.st.scaling_jobs) = 1
              /\ \A k \in 1..Len(scaling.ratios) :
                    scaling.st.scaling_jobs[1] <= scaling.ratios[k]

C8_Witness ==
    /\ ScalingDecomposed
    /\ scaling.target = 1
    /\ scaling.ratios = <<1, 2, 3, 4>>
    /\ scaling.st.scaling_jobs = <<1>>

\* ---- the pipeline (Spec, FairSpec)
Filled(i) == processed_frames[i] # None

\* the frame indices written so far are 0, 1, 2, ... in this order
WrittenInOrder ==
    /\ Len(written) <= TotalFrames
    /\ \A n \in 1..Len(written) : written[n] = n - 1

EncoderFinishedAll ==
    /\ encoder.pc = "shutdown"
    /\ encoder.frame_index = TotalFrames

\* C1 as stated: the frames are written once each in increasing index order
\* and the Processed Counter equals the number of frames written so far in
\* every state.
C1_CounterEqualsWritten ==
    /\ WrittenInOrder
    /\ processed = Len(written)

\* C1 as amended: the Encode Stage writes the frame indices 0, 1, 2, ...
\* once each in increasing order whatever the order in which the slots are
\* filled; the Processed Counter equals the number of frames written except
\* between the write of a frame and the increment for it, where it is one
\* less; when the loop finishes after index total_frames - 1, all N indices
\* have been written and the counter equals N.
C1_OrderedWrites ==
    /\ WrittenInOrder
    /\ processed = Len(written)
                      - (IF encoder.pc \in {"clear", "count"} THEN 1 ELSE 0)
    /\ encoder.pc \in {"loop", "write", "shutdown"} =>
          Len(written) = encoder.frame_index
    /\ EncoderFinishedAll =>
          /\ Len(written) = TotalFrames
          /\ processed = TotalFrames

\* every frame scaled and written, the loop finished
C1_Witness ==
    /\ EncoderFinishedAll
    /\ processed = TotalFrames
    /\ written = [n \in 1..TotalFrames |-> n - 1]
    /\ \A i \in Slots : stored[i] # None /\ stored[i].path = "scale"

SkipWaiting(w, k) ==
    /\ upscaler[w].pc = "wait"
    /\ upscaler[w].job.frame_index = k

\* Slot i is empty and nothing will assign it again: the only job for frame i
\* has been taken, its worker has made its assignment to the slot, and the
\* decoder is past frame i.
SlotStaysEmpty(i) ==
    /\ processed_frames[i] = None
    /\ stored[i] # None
    /\ decoder.pc # "created"
    /\ decoder.frame_index > i
    /\ \A n \in 1..Len(processing_queue) : processing_queue[n].frame_index # i
    /\ \A w \in Workers :
          upscaler[w].job # NoJob => upscaler[w].job.frame_index # i

\* a worker in the skip wait of frame k whose wait can never end
WaitsForever(w, k) == SkipWaiting(w, k) /\ SlotStaysEmpty(k - 1)

\* Once a worker waits on a slot that stays empty, it does so in every later
\* state: no step of the pipeline ends the wait.
WaitsForeverIsStable ==
    [][\A w \in Workers : \A k \in 1..(TotalFrames - 1) :
          WaitsForever(w, k) => WaitsForever(w, k)']_vars

\* C2: the skip path's wait on slot frame_index - 1 never deadlocks: with no
\* worker error, a worker that waits on slot frame_index - 1
\* (frame_index > 0) is never left waiting on a slot that stays empty, under
\* every interleaving of the workers with the Encode Stage.
C2_SkipWaitNeverDeadlocks ==
    \A w \in Workers : \A k \in 1..(TotalFrames - 1) :
        num_gpus > 0 => ~WaitsForever(w, k)

\* C3: what the skip path stores in slot frame_index (frame_index > 0) is
\* the completed result that was stored in slot frame_index - 1, never an
\* empty value.
C3_SkipCopiesPredecessor ==
    \A k \in 1..(TotalFrames - 1) :
        (stored[k] # None /\ stored[k].path = "skip") =>
            /\ stored[k].value # None
            /\ stored[k - 1] # None
            /\ stored[k].value = stored[k - 1].value

\* C4: for every difference_threshold the job with frame_index 0 goes
\* through scaling and its own processed result is stored in slot 0.
C4_FrameZeroIsScaled ==
    /\ \A w \in Workers :
          (upscaler[w].job # NoJob /\ upscaler[w].job.frame_index = 0) =>
              upscaler[w].pc = "scale"
    /\ stored[0] # None =>
          /\ stored[0].path = "scale"
          /\ stored[0].value # None
          /\ stored[0].value.frame = 0

OutputSize ==
    <<processing_settings.output_width, processing_settings.output_height>>

\* C9: every image held in a filled slot, stored by the scaling path or by
\* the skip-copy path, has exactly the size (output_width, output_height).
C9_SlotsHaveOutputSize ==
    \A i \in Slots : Filled(i) => processed_frames[i].size = OutputSize

\* a filled slot from each path
C9_Witness ==
    \E i, j \in Slots :
        /\ Filled(i) /\ stored[i] # None /\ stored[i].path = "scale"
        /\ Filled(j) /\ stored[j] # None /\ stored[j].path = "skip"
        /\ processed_frames[i].size = OutputSize
        /\ processed_frames[j].size = OutputSize

KeysOf(seq) == {seq[n] : n \in 1..Len(seq)}

CacheConsistent(w) ==
    /\ \A m, n \in 1..Len(constructed[w]) :
          constructed[w][m] = constructed[w][n] => m = n
    /\ DOMAIN processor_objects[w] = KeysOf(constructed[w])
    /\ \A key \in DOMAIN processor_objects[w] :
          /\ processor_objects[w][key].owner = w
          /\ <<processor_objects[w][key].cls,
               processor_objects[w][key].scale>> = key
    /\ \A n \in 1..Len(used[w]) :
          LET key == <<used[w][n].cls, used[w][n].scale>>
          IN  /\ key \in DOMAIN processor_objects[w]
              /\ used[w][n] = processor_objects[w][key]

CacheKept(w) ==
    \A key \in DOMAIN processor_objects[w] :
        /\ key \in DOMAIN processor_objects'[w]
        /\ processor_objects'[w][key] = processor_objects[w][key]

\* C10: within one worker a backend for a given (algorithm, ratio) key is
\* constructed at most once and every later step with that key goes through
\* that same object; an entry of the cache is never removed or replaced, and
\* the objects of a worker's cache are its own.
C10_BackendCache ==
    /\ [](\A w \in Workers : CacheConsistent(w))
    /\ [][\A w \in Workers : CacheKept(w)]_vars

\* a frame whose second step went through the object its first step made
C10_Witness ==
    \E w \in Workers :
        /\ Len(constructed[w]) = 1
        /\ Len(used[w]) = 2
        /\ used[w][1] = used[w][2]
        /\ upscaler[w].pc = "scale"

\* ---- the queue and the slots (Spec)
\* the number of jobs for frame i in the queue
InQueue(i) ==
    Cardinality({n \in 1..Len(processing_queue) :
                    processing_queue[n].frame_index = i})

\* the workers whose locals hold the job of frame i
Holders(i) ==
    {w \in Workers :
        upscaler[w].job # NoJob /\ upscaler[w].job.frame_index = i}

\* where the job of frame i is: in the queue, with a worker, or done (its
\* worker has made its assignment to slot i)
Copies(i) ==
    InQueue(i) + Cardinality(Holders(i))
       + (IF stored[i] # None THEN 1 ELSE 0)

\* a step of the decoder that appends a job to the queue
Enqueues == Len(processing_queue') > Len(processing_queue)

\* a step of the decoder that reads a frame
ReadsFrame == decoder.image = None /\ decoder'.image # None

\* C12: while the Pause Flag is set the Decode Stage performs no read and no
\* queue offer: no step taken in a state where the flag is true reads a
\* frame or enqueues a job, also when the flag was set after the decoder's
\* pause check or inside its put-retry loop.
C12_NoDecodeWhilePaused ==
    [][pause => ~Enqueues /\ ~ReadsFrame]_vars

\* the job the decoder has read and not yet enqueued
PendingJob ==
    FrameJob(decoder.frame_index, decoder.previous_image, decoder.image)

\* the queue holds consecutive frame indices, oldest first
QueueInOrder ==
    \A n \in 1..(Len(processing_queue) - 1) :
        processing_queue[n + 1].frame_index =
           processing_queue[n].frame_index + 1

\* every frame the decoder is past has exactly one job, except the last one
\* when a stop ended the put-retry loop; no other frame has a job
EnqueuedOnce ==
    \A i \in Slots :
        IF i < decoder.frame_index
        THEN \/ Copies(i) = 1
             \/ /\ Copies(i) = 0
                /\ i = decoder.frame_index - 1
                /\ ~decoder.running
        ELSE Copies(i) = 0

\* a step from the put-retry loop: the pending job is kept, or it is
\* appended to a queue that had room, or a stop was requested
PutRetry ==
    decoder.pc = "put" =>
        \/ /\ decoder'.pc = "put"
           /\ PendingJob' = PendingJob
           /\ ~Enqueues
        \/ /\ Len(processing_queue) < QueueSize
           /\ processing_queue' = Append(processing_queue, PendingJob)
           /\ decoder'.frame_index = decoder.frame_index + 1
        \/ /\ ~decoder.running
           /\ ~Enqueues

\* C13: the Work Queue never holds more jobs than its capacity; when it is
\* full the Decode Stage keeps the one pending job and retries the offer
\* until it is accepted or a stop is requested; while the stage is not
\* stopped every frame read is enqueued exactly once and in index order.
C13_Backpressure ==
    /\ [](Len(processing_queue) <= QueueSize)
    /\ [](QueueInOrder /\ EnqueuedOnce)
    /\ [][PutRetry]_vars
    /\ [][Enqueues => decoder.pc = "put" /\ decoder.running]_vars

\* the decoder holds a pending job in front of a full queue while the jobs
\* of the earlier frames are all accounted for
C13_Witness ==
    /\ decoder.pc = "put"
    /\ decoder.running
    /\ decoder.frame_index = QueueSize
    /\ Len(processing_queue) = QueueSize
    /\ \A i \in 0..(QueueSize - 1) : InQueue(i) = 1

\* a step in which a worker assigns slot i
Assigns(i) == stored'[i] # stored[i]

\* a step of worker w that ends its job for frame i
Publishes(w, i) ==
    /\ w \in Holders(i)
    /\ upscaler'[w].job = NoJob
    /\ \A v \in Workers \ {w} : upscaler'[v] = upscaler[v]

SlotWriteOnce ==
    \A i \in Slots :
        /\ stored[i] # None => ~Assigns(i)
        /\ Assigns(i) => \E w \in Workers : Publishes(w, i)
        /\ processed_frames'[i] # processed_frames[i] =>
              \/ Assigns(i) /\ ~Filled(i)
              \/ /\ processed_frames'[i] = None
                 /\ encoder.pc = "clear"
                 /\ encoder.frame_index = i
        /\ \A j \in Slots \ {i} : ~(Assigns(i) /\ Assigns(j))

\* C14: a slot that has gone from empty to filled is not written again by
\* any worker before the Encode Stage clears it, two workers never write the
\* same slot, and each worker writes only the slot at the frame_index of the
\* job it holds.
C14_SlotWriteOnce ==
    /\ [](\A i \in Slots : Cardinality(Holders(i)) <= 1)
    /\ [][SlotWriteOnce]_vars

\* slots filled by different workers, one of them cleared again by the
\* encoder and left alone
C14_Witness ==
    /\ processed = 1
    /\ stored[0] # None /\ stored[0].value # None
    /\ processed_frames[0] = None
    /\ Filled(1)
    /\ Cardinality(Holders(2)) = 1

\* the jobs that exist, wherever they are
Jobs ==
    {processing_queue[n] : n \in 1..Len(processing_queue)}
       \cup {upscaler[w].job : w \in {v \in Workers : upscaler[v].job # NoJob}}

\* a step that appends the job of frame decoder.frame_index, holding the
\* image read for it and the image of the frame before it
EnqueuesNext ==
    Enqueues =>
        /\ processing_queue' = Append(processing_queue, PendingJob)
        /\ decoder'.frame_index = decoder.frame_index + 1
        /\ decoder'.previous_image = decoder.image
        /\ decoder.image # None

\* a step that takes a job from the queue: the oldest one, by one worker
Dequeues ==
    Len(processing_queue') < Len(processing_queue) =>
        /\ processing_queue' = Tail(processing_queue)
        /\ \E w \in Workers :
              /\ upscaler[w].job = NoJob
              /\ upscaler'[w].job = Head(processing_queue)
              /\ \A v \in Workers \ {w} : upscaler'[v] = upscaler[v]

\* C15: the jobs enqueued carry the frame indices 0, 1, 2, ... with no gap
\* and no repeat, in that order; the job with index k > 0 carries the image
\* of frame k - 1 as its previous image and the job with index 0 carries
\* none; every job is dequeued by at most one worker, so no frame index is
\* held by two workers.
C15_DenseJobs ==
    /\ [](QueueInOrder)
    /\ [](\A i \in Slots : Copies(i) <= 1)
    /\ [](\A i \in Slots : i >= decoder.frame_index => Copies(i) = 0)
    /\ [](\A j \in Jobs : (j.frame_index = 0) = (j.image0 = None))
    /\ [](\A j, k \in Jobs :
             k.frame_index = j.frame_index + 1 => k.image0 = j.image1)
    /\ [](\A j \in Jobs :
             j.frame_index = decoder.frame_index - 1 =>
                decoder.previous_image = j.image1)
    /\ [][EnqueuesNext /\ Dequeues]_vars

\* the jobs of frames 1 and 2 exist, held by two workers, frame 1 differing
\* from frames 0 and 2
C15_Witness ==
    \E v, w \in Workers :
        /\ v # w
        /\ v \in Holders(1)
        /\ w \in Holders(2)
        /\ upscaler[v].job.image0.px # upscaler[v].job.image1.px
        /\ upscaler[w].job.image0 = upscaler[v].job.image1
        /\ upscaler[w].job.image1.px # upscaler[w].job.image0.px

\* the positions of the decoder's loop
DecoderInLoop == decoder.pc \in {"loop", "put"}

\* C16: an empty read ends the Decode Stage with no recorded error; a read
\* that yields a short or invalid frame records the error on the stage and
\* ends it without enqueuing that frame and without retrying; in both cases
\* no further frame is read or enqueued afterwards and the jobs already
\* enqueued are left as they are.
C16_DecoderTermination ==
    /\ [](decoder.exception # None =>
             ~DecoderInLoop /\ decoder.exception = Error("ValueError"))
    /\ [][(decoder.pc = "loop" /\ ~decoder.running) =>
             \/ decoder' = decoder
             \/ /\ ~DecoderInLoop'
                /\ decoder'.exception = None
                /\ decoder'.frame_index = decoder.frame_index
                /\ processing_queue' = processing_queue]_vars
    /\ [][(decoder.exception = None /\ decoder'.exception # None) =>
             /\ decoder.pc = "loop"
             /\ ~DecoderInLoop'
             /\ decoder'.image = None
             /\ decoder'.frame_index = decoder.frame_index
             /\ processing_queue' = processing_queue]_vars
    /\ [][(decoder.pc # "created" /\ ~DecoderInLoop) =>
             /\ ~DecoderInLoop'
             /\ ~Enqueues /\ ~ReadsFrame
             /\ decoder'.frame_index = decoder.frame_index
             /\ decoder'.exception = decoder.exception]_vars

\* the stage ended by a short read after its first frame, whose job is
\* still in the queue
C16_Witness ==
    /\ decoder.pc = "shutdown"
    /\ decoder.exception = Error("ValueError")
    /\ decoder.frame_index = 1
    /\ InQueue(0) = 1

\* worker w left its loop on an error while it held the job of frame k
Failed(w, k) ==
    /\ upscaler[w].pc = "terminated"
    /\ w \in Holders(k)

\* the step in which worker w fails changes nothing but w's position
FailsAlone(w) ==
    (upscaler[w].pc # "terminated" /\ upscaler'[w].pc = "terminated"
       /\ upscaler'[w].job # NoJob) =>
        /\ upscaler'[w].job = upscaler[w].job
        /\ \A v \in Workers \ {w} : upscaler'[v] = upscaler[v]
        /\ UNCHANGED << processing_queue, processed_frames, stored, pause,
                        decoder, encoder, written, processed >>

\* C19: a worker that hits an unrecoverable error while handling the job of
\* frame k (the division by zero of instance_number % num_gpus when the GPU
\* count is 0) exits its loop without storing anything in slot k, without
\* putting the job back and without signalling siblings or other stages;
\* slot k stays empty and the Encode Stage never advances past index k
\* (Processed Counter <= k).
C19_FailedJobIsLost ==
    /\ [](\A w \in Workers : \A k \in Slots :
             Failed(w, k) =>
                /\ processed_frames[k] = None
                /\ stored[k] = None
                /\ InQueue(k) = 0
                /\ Holders(k) = {w}
                /\ encoder.frame_index <= k
                /\ processed <= k
                /\ Len(written) <= k)
    /\ [][\A w \in Workers : FailsAlone(w)]_vars

\* with no GPU the worker of frame 0 has failed, a sibling is still in its
\* loop and the encoder polls slot 0
C19_Witness ==
    \E w, v \in Workers :
        /\ num_gpus = 0
        /\ Failed(w, 0)
        /\ upscaler[v].pc = "loop" /\ upscaler[v].running
        /\ encoder.pc = "loop" /\ encoder.running
        /\ encoder.frame_index = 0
        /\ decoder.frame_index = TotalFrames

\* C20: the content of a filled slot i is the result of scaling frame i
\* itself or a copy of the completed result of slot i - 1 with i >= 1; slot
\* 0 never receives the content of another slot.
C20_SlotContent ==
    \A i \in Slots :
        Filled(i) =>
            \/ /\ stored[i].path = "scale"
               /\ processed_frames[i].frame = i
            \/ /\ i >= 1
               /\ stored[i].path = "skip"
               /\ stored[i - 1] # None
               /\ processed_frames[i] = stored[i - 1].value

\* ---- shutdown of the two threads (SpecShutdown)
\* lines 179-200 of decoder.py and 176-197 of encoder.py, in program order
ShutdownSequence == <<"flush", "signal", "close", "wait", "join">>

IsPrefix(a, b) == Len(a) <= Len(b) /\ a = SubSeq(b, 1, Len(a))

\* run() of the thread has ended, by returning or by raising
DecoderEnded == decoder.pc = "finished"
EncoderEnded == encoder.pc \in {"finished", "raised"}

\* C17: whatever ends the loop of the Decode Stage or the Encode Stage
\* (exhaustion or all frames written, a recorded error, an external stop),
\* the stage performs its complete shutdown sequence exactly once and in
\* this order: flush pipes, send the interrupt signal, close pipes, wait for
\* process exit, stop and join its log relay; the stage does not finish
\* before the external process has exited and the relay has stopped.
C17_FullShutdown ==
    /\ IsPrefix(decoder.shutdown, ShutdownSequence)
    /\ IsPrefix(encoder.shutdown, ShutdownSequence)
    /\ DecoderEnded =>
          /\ decoder.shutdown = ShutdownSequence
          /\ decoder.process = "exited"
          /\ decoder.pipe_printer = "stopped"
    /\ EncoderEnded =>
          /\ encoder.shutdown = ShutdownSequence
          /\ encoder.process = "exited"
          /\ encoder.pipe_printer = "stopped"

\* ---- workers being stopped (SpecStop)
\* the stop signal has been delivered to worker w: _stop has run
StopDelivered(w) == upscaler[w].pc # "created" /\ ~upscaler[w].running

\* C18: a worker that receives the stop signal reaches its terminal state
\* from every state of its loop after finishing at most its current bounded
\* wait or unit of work; in particular a worker waiting on an unfilled
\* predecessor slot stops once the stop signal has been delivered: no worker
\* the signal has reached is left in the skip wait on a slot that stays
\* empty.
C18_StopEndsSkipWait ==
    \A w \in Workers : \A k \in 1..(TotalFrames - 1) :
        StopDelivered(w) => ~WaitsForever(w, k)

\* ---- pausing (SpecPause)
\* the jobs of the queue before a step are still its first jobs after it
QueueKept ==
    /\ Len(processing_queue') >= Len(processing_queue)
    /\ SubSeq(processing_queue', 1, Len(processing_queue)) = processing_queue

SlotsKept == \A i \in Slots : Filled(i) => Filled(i)'

\* C11 as stated: for any sequence of Pause Flag set and clear events in a
\* run without errors the frames are written once each in index order, and
\* the queued jobs and filled slots present when the flag is set are still
\* present when it is cleared: no step taken while the flag is set removes
\* a job from the queue or empties a slot.
C11_PauseKeepsJobsAndSlots ==
    /\ [](WrittenInOrder)
    /\ [][pause => QueueKept /\ SlotsKept]_vars

\* a stage that is at its pause check stays there (a stage whose loop
\* condition is false leaves its loop before the check)
AtCheckStays ==
    /\ (decoder.pc = "loop" /\ decoder.running) => decoder' = decoder
    /\ (encoder.pc = "loop" /\ encoder.running
          /\ encoder.frame_index < TotalFrames) => encoder' = encoder
    /\ \A w \in Workers : upscaler[w].pc = "loop" => upscaler'[w] = upscaler[w]

\* a job leaves the queue into the locals of a worker that had passed its
\* pause check
TakenInFlight ==
    ~QueueKept =>
        /\ processing_queue' = Tail(processing_queue)
        /\ \E w \in Workers :
              /\ upscaler[w].pc = "get"
              /\ upscaler'[w].job = Head(processing_queue)

\* a slot is emptied by the encoder, which had passed its pause check, read
\* the slot and written its image
ClearedInFlight ==
    \A i \in Slots :
        (Filled(i) /\ ~Filled(i)') =>
            /\ encoder.pc = "clear"
            /\ encoder.frame_index = i
            /\ written # <<>>
            /\ written[Len(written)] = i

\* no job is lost or duplicated: the job of every frame the decoder is past
\* is in the queue, with one worker, or done
NoJobLost ==
    \A i \in Slots :
        Copies(i) = (IF i < decoder.frame_index THEN 1 ELSE 0)

\* C11 as amended: the frames are written in index order, each at most
\* once, and all of 0..N-1 when the loop finishes after index N-1; no job
\* is lost or duplicated; while the flag is set a stage that is at its
\* pause check stays there, and a stage that had passed its check completes
\* the iteration it had begun: a job leaves the queue only into a worker
\* that had passed its check, and a filled slot is emptied only by the
\* Encode Stage after it has written that slot's image.
C11_PauseCompletesIterations ==
    /\ [](WrittenInOrder)
    /\ [](EncoderFinishedAll => written = [n \in 1..TotalFrames |-> n - 1])
    /\ [](NoJobLost)
    /\ [][pause => AtCheckStays]_vars
    /\ [][TakenInFlight /\ ClearedInFlight]_vars

\* the flag is set while the decoder, the encoder and a worker have each
\* passed the pause check and are about to put, clear and get
C11_Witness ==
    /\ pause
    /\ decoder.pc = "put"
    /\ Len(processing_queue) = 1
    /\ encoder.pc = "clear"
    /\ \E w \in Workers : upscaler[w].pc = "get"

\* ---- termination of the decomposition (FairSpecScaling)
\* one iteration of the while loop
Iterates == scaling.pc = "loop" /\ scaling'.st # scaling.st

\* the steps an iteration appends
Appended ==
    SubSeq(scaling'.st.scaling_jobs, Len(scaling.st.scaling_jobs) + 1,
           Len(scaling'.st.scaling_jobs))

\* C23: the decomposition loop terminates for every ratio table of
\* ALGORITHM_FIXED_SCALING_RATIOS and every integer target R >= 1: each
\* iteration appends at least one step and divides the remaining ratio by a
\* factor > 1, so that the remaining ratio reaches <= 1 after finitely many
\* iterations; a ratio of 1 is never selected when R >= 2.
C23_DecompositionTerminates ==
    /\ <>(scaling.pc = "done")
    /\ [](scaling.pc = "done" => scaling.st.num <= scaling.st.den)
    /\ [][Iterates =>
             /\ Appended # <<>>
             /\ scaling'.st.scaling_jobs = scaling.st.scaling_jobs \o Appended
             /\ scaling'.st.den = scaling.st.den * Product(Appended)
             /\ Product(Appended) > 1
             /\ \A n \in 1..Len(Appended) : Appended[n] > 1]_vars
    /\ [](scaling.target >= 2 =>
             \A n \in 1..Len(scaling.st.scaling_jobs) :
                scaling.st.scaling_jobs[n] # 1)

\* a table that holds the ratio 1, decomposed in two iterations without it
C23_Witness ==
    /\ scaling.pc = "done"
    /\ scaling.ratios = <<1, 2>>
    /\ scaling.target = 5
    /\ scaling.st.scaling_jobs = <<2, 2, 2>>
    /\ Len(scaling.st.rule) = 2

\* ---- the encoder and the frames that never come (Spec)
\* the positions of the encoder's loop
EncoderInLoop == encoder.pc \in {"loop", "write", "clear", "count"}

\* the decoder has ended and no job of frame k exists or was completed
NotDelivered(k) ==
    /\ decoder.pc # "created"
    /\ ~DecoderInLoop
    /\ Copies(k) = 0

\* the encoder polls slot k, which nothing will fill
WaitsOn(k) ==
    /\ encoder.pc = "loop"
    /\ encoder.running
    /\ encoder.frame_index = k
    /\ NotDelivered(k)

\* C22: the Encode Stage's loop ends on its own (no stop(), no write error
\* of its own) only after it has written exactly total_frames frames; when
\* the Decode Stage delivers fewer than total_frames frames (source
\* exhausted early or decode error), the Encode Stage stays at the first
\* slot that is never filled, its index and the Processed Counter unchanged,
\* until stop() is called.
C22_EncoderWaitsForMissingFrames ==
    /\ [][(EncoderInLoop /\ ~EncoderInLoop') =>
             \/ /\ encoder.frame_index = TotalFrames
                /\ Len(written) = TotalFrames
                /\ processed = TotalFrames
             \/ ~encoder.running
             \/ encoder.exception = None /\ encoder'.exception # None]_vars
    /\ [](\A k \in Slots :
             NotDelivered(k) =>
                /\ processed_frames[k] = None
                /\ encoder.frame_index <= k
                /\ processed <= k
                /\ Len(written) <= k)
    /\ [][\A k \in Slots :
             WaitsOn(k) =>
                /\ processed' = processed
                /\ written' = written
                /\ processed_frames' = processed_frames
                /\ \/ WaitsOn(k)'
                   \/ encoder' = [encoder EXCEPT !.running = FALSE]]_vars

\* the source ended after one frame, which the encoder has written; the
\* encoder polls slot 1 with every worker idle
C22_Witness ==
    /\ WaitsOn(1)
    /\ decoder.frame_index = 1
    /\ decoder.exception = None
    /\ processed = 1
    /\ Len(written) = 1
    /\ processing_queue = <<>>
    /\ \A w \in Workers : upscaler[w].pc = "loop" /\ upscaler[w].job = NoJob

\* ---- stop requests (SpecStart)
\* C24: a stop request is never lost: for the Decode Stage, the Encode Stage
\* and each worker, once stop() has been called (or the stop signal
\* delivered) at any moment after the stage was started, also before run()
\* has executed its first statement, the stage's running flag is False from
\* then on, so that the stage leaves its main loop at the next test of the
\* flag without needing further frames or slots.
C24_StopNeverLost ==
    /\ decoder.stop_called => ~decoder.running
    /\ encoder.stop_called => ~encoder.running
    /\ \A w \in Workers : upscaler[w].stop_called => ~upscaler[w].running

\* ---- the complete run (FairSpecRun)
\* the encoder has left its loop after the last frame and nothing is left
RunComplete ==
    /\ EncoderFinishedAll
    /\ encoder.exception = None
    /\ written = [n \in 1..TotalFrames |-> n - 1]
    /\ processed = TotalFrames
    /\ processing_queue = <<>>
    /\ \A i \in Slots : processed_frames[i] = None

====
